---- MODULE Spec2Model ----
(***************************************************************************)
(* Model of the step execution engine of cauldron:                         *)
(*   src/cauldron/runner/python_file.py                                    *)
(* and of the reconciliation of step statuses with the local files:        *)
(*   src/cauldron/ui/statuses/_reconciler.py                               *)
(* A thread invokes run(project, step); other actors may request an abort  *)
(* of a worker thread at any moment.  Strings that the code inspects by    *)
(* prefix (file names, directories) are sequences of one-character         *)
(* strings, so that str.startswith and slicing are computed as Python      *)
(* computes them.  A step's source is a sequence of physical lines, each   *)
(* of one of a few shapes, compiled as CPython 3.11 compiles them.         *)
(***************************************************************************)
EXTENDS Integers, Sequences, FiniteSets, TLC

VARIABLES
    is_cauldron,    \* thread -> isinstance(thread, threads.CauldronThread)
    testing,        \* environ.modes.has(environ.modes.TESTING)
    quota,          \* thread -> number of invocations its caller still makes
    project,        \* thread -> the Project passed to run
    step,           \* thread -> the ProjectStep passed to run (test_locals is mutable)
    is_executing,   \* thread -> CauldronThread.is_executing
    abort,          \* thread -> CauldronThread.abort (abortRequested)
    pc,             \* thread -> position inside run
    source_code,    \* thread -> local variable source_code of run
    exc,            \* thread -> exception in flight inside the try block
    out,            \* thread -> local variable out of run
    trace,          \* thread -> events since the previous invocation ended
    results,        \* thread -> what each finished invocation gave its caller
    project_data,   \* the dictionary passed to localize_dirty_steps
    given,          \* project_data as it was when the call was made
    files,          \* path -> the local file as os.path sees it
    sync_timestamp, \* environ.remote_connection.sync_timestamp
    marked,         \* the list built by the comprehension of localize_dirty_steps
    returned,       \* what localize_dirty_steps returned
    rpc             \* position inside localize_dirty_steps

reconciler_vars == <<project_data, given, files, sync_timestamp, marked, returned, rpc>>

vars == <<is_cauldron, testing, quota, project, step, is_executing, abort,
          pc, source_code, exc, out, trace, results, reconciler_vars>>

Threads == {"t1", "t2"}

(***************************************************************************)
(* Bounds of the model.                                                    *)
(***************************************************************************)
MaxRuns == 2
MaxLines == 2
MaxCalls == 2
MaxSteps == 2
MaxTime == 2

(***************************************************************************)
(* Python values.                                                          *)
(***************************************************************************)
None == "None"

\* None where the other values are records.
NoValue == [none |-> TRUE]

NoError == [kind |-> None]

\* How a call ends: with a value returned or with an exception raised.
Returns(value) == [how |-> "returned", value |-> value]

Raises(error) == [how |-> "raised", value |-> error]

\* The class hierarchy the except clauses of run dispatch on.
Bases(kind) ==
    CASE kind = "ValueError"       -> {"ValueError", "Exception", "BaseException"}
      [] kind = "UserAbortError"   -> {"UserAbortError", "Exception", "BaseException"}
      [] kind = "ThreadAbortError" -> {"ThreadAbortError", "Exception", "BaseException"}
      [] kind = "SystemExit"       -> {"SystemExit", "BaseException"}
      [] kind = "OSError"          -> {"OSError", "Exception", "BaseException"}
      [] kind = "UnicodeDecodeError" ->
             {"UnicodeDecodeError", "ValueError", "Exception", "BaseException"}
      [] kind = "AttributeError"   -> {"AttributeError", "Exception", "BaseException"}
      [] kind = "IndentationError" -> {"IndentationError", "SyntaxError", "Exception", "BaseException"}
      [] kind = "SyntaxError"      -> {"SyntaxError", "Exception", "BaseException"}
      [] OTHER                     -> {"BaseException"}

isinstance(error, cls) == cls \in Bases(error.kind)

(***************************************************************************)
(* Strings as sequences of characters.                                     *)
(***************************************************************************)
startswith(s, prefix) ==
    /\ Len(prefix) <= Len(s)
    /\ SubSeq(s, 1, Len(prefix)) = prefix

\* s[n:] of Python: the empty string when n is beyond the end.
SliceFrom(s, n) == IF n >= Len(s) THEN <<>> ELSE SubSeq(s, n + 1, Len(s))

\* environ.paths.package() and environ.paths.resources()
cauldron_path == <<"/", "c">>
resources_path == <<"/", "c", "/", "r">>

\* Files that can show up in a traceback.
RunnerFile == <<"/", "c", "/", "f">>              \* cauldron/runner/python_file.py
EngineFile == <<"/", "c", "/", "d">>              \* another module of the engine
TemplateFile == <<"/", "c", "/", "r", "/", "h">>  \* a bundled resource
SiblingFile == <<"/", "c", "c", "/", "x">>        \* beside the install root
LibraryFile == <<"/", "l", "/", "m">>             \* a third-party library
StepFile == <<"/", "p", "/", "s">>                \* the step's source file
HelperFile == <<"/", "p", "/", "h">>              \* another file of the project
BundledStepFile == <<"/", "c", "/", "e">>         \* a step of a project shipped in the package
ProjectSiblingFile == <<"/", "p", "p", "/", "x">>  \* beside the project's source root
ProjectDirectory == <<"/", "p">>
OtherDirectory == <<"/", "q">>

(***************************************************************************)
(* Source text and its compilation (InspectLoader.source_to_code).         *)
(* A text is its physical lines and whether it ends with a newline. The    *)
(* shapes of a line:                                                       *)
(*   "stmt"   a complete statement at column 0         x = 1               *)
(*   "bad"    a line that is invalid by itself         def f(:             *)
(*   "cont"   a statement ending in a continuation     x = 1 \             *)
(*   "header" a block header                           if True:            *)
(*   "body"   an indented statement                        pass            *)
(*   "nul"    a line holding a NUL character                               *)
(*   "blank"  an empty line                                                *)
(***************************************************************************)
SourceShapes == {"stmt", "bad", "cont", "header", "body", "nul"}

Text(lines, newline) == [lines |-> lines, newline |-> newline]

\* '\n'.join(['', 'import cauldron as __cauldron__',
\*            '__cauldron__.display.whitespace(0)', '__cauldron__.step.breathe()'])
footer == Text(<<"blank", "stmt", "stmt", "stmt">>, FALSE)

\* a + b for a text b whose first line is empty: that empty line ends the
\* last line of a, or stays an empty line when a already ended in a newline.
Concat(a, b) ==
    IF a.lines = <<>> \/ a.newline
    THEN Text(a.lines \o b.lines, b.newline)
    ELSE Text(a.lines \o Tail(b.lines), b.newline)

Compiled == [ok |-> TRUE]

SyntaxErrorAt(kind, lineno, msg, text, filename) ==
    [ok |-> FALSE,
     error |-> [kind |-> kind, lineno |-> lineno, msg |-> msg,
                text |-> text, filename |-> filename]]

\* The tokenizer and parser over the physical lines from line i on:
\* pending = a block header awaits its indented body, inblock = the previous
\* statement was inside an indented block, last = the last non-blank line.
RECURSIVE Parse(_, _, _, _, _, _)
Parse(lines, i, pending, inblock, last, filename) ==
    IF i > Len(lines)
    THEN IF pending
         THEN SyntaxErrorAt("IndentationError", last, "expected an indented block",
                            [str |-> <<lines[last], "\n">>], filename)
         ELSE Compiled
    ELSE LET k == lines[i] IN
         IF k = "blank" THEN Parse(lines, i + 1, pending, inblock, last, filename)
         ELSE IF pending
         THEN IF k # "body"
              THEN SyntaxErrorAt("IndentationError", i, "expected an indented block",
                                 [str |-> <<k, "\n">>], filename)
              ELSE Parse(lines, i + 1, FALSE, TRUE, i, filename)
         ELSE IF k = "body"
         THEN IF ~inblock
              THEN SyntaxErrorAt("IndentationError", i, "unexpected indent",
                                 [str |-> <<k, "\n">>], filename)
              ELSE Parse(lines, i + 1, FALSE, TRUE, i, filename)
         ELSE IF k = "bad"
         THEN SyntaxErrorAt("SyntaxError", i, "invalid syntax", [str |-> <<k, "\n">>], filename)
         ELSE IF k = "stmt"
         THEN Parse(lines, i + 1, FALSE, FALSE, i, filename)
         ELSE IF k = "header"
         THEN Parse(lines, i + 1, TRUE, FALSE, i, filename)
         ELSE \* "cont": the next physical line continues this one
              IF i = Len(lines)
              THEN SyntaxErrorAt("SyntaxError", i, "unexpected EOF while parsing",
                                 [str |-> <<k, "\n">>], filename)
              ELSE IF lines[i + 1] = "blank"
              THEN Parse(lines, i + 2, FALSE, FALSE, i, filename)
              ELSE SyntaxErrorAt("SyntaxError", i + 1, "invalid syntax",
                                 [str |-> <<k, "\n", lines[i + 1], "\n">>], filename)

\* A NUL character anywhere is refused before the text is tokenized, with a
\* SyntaxError that has neither a line number nor a text.
source_to_code(text, filename) ==
    IF \E i \in 1..Len(text.lines) : text.lines[i] = "nul"
    THEN SyntaxErrorAt("SyntaxError", None, "source code string cannot contain null bytes",
                       NoValue, filename)
    ELSE Parse(text.lines, 1, FALSE, FALSE, 0, filename)

(***************************************************************************)
(* Rendering of failures.                                                  *)
(***************************************************************************)
Whitespace == {" ", "\n", "\t"}

RECURSIVE rstrip(_)
rstrip(s) ==
    IF s # <<>> /\ s[Len(s)] \in Whitespace
    THEN rstrip(SubSeq(s, 1, Len(s) - 1))
    ELSE s

\* '{}'.format(error): str() of the exception.
FormatError(error) ==
    IF isinstance(error, "SyntaxError")
    THEN <<error.msg, error.filename, error.lineno>>
    ELSE error.args

\* templating.render_template(name, **render_data): an external renderer,
\* kept as the term of its arguments.
render_template(name, render_data) == [template |-> name, data |-> render_data]

\* error.text.rstrip() raises when the SyntaxError has no text.
render_syntax_error(proj, code, error) ==
    IF error.text = NoValue
    THEN Raises([kind |-> "AttributeError",
                 args |-> "'NoneType' object has no attribute 'rstrip'",
                 tb |-> <<>>])
    ELSE LET stack == << [filename |-> error.filename,
                          location |-> None,
                          line_number |-> error.lineno,
                          line |-> rstrip(error.text.str)] >>
             render_data == [type |-> error.kind,
                             message |-> FormatError(error),
                             stack |-> stack]
         IN Returns([success |-> FALSE,
                     error |-> error,
                     message |-> render_template("user-code-error.txt", render_data),
                     html_message |-> render_template("user-code-error.html", render_data)])

is_cauldron_code(test_filename) ==
    IF test_filename = <<>> \/ ~startswith(test_filename, cauldron_path)
    THEN FALSE
    ELSE IF startswith(test_filename, resources_path)
    THEN FALSE
    ELSE TRUE

\* get_stack_frames without the loop that pops frames.
get_stack_frames_KeepsAll(frames) == frames

\* get_stack_frames popping internal frames down to the last one.
RECURSIVE get_stack_frames_PopsLast(_)
get_stack_frames_PopsLast(frames) ==
    IF Len(frames) > 0 /\ is_cauldron_code(frames[1].filename)
    THEN get_stack_frames_PopsLast(Tail(frames))
    ELSE frames

\* frames is traceback.extract_tb(sys.exc_info()[-1]) of the error handled.
RECURSIVE get_stack_frames(_)
get_stack_frames(frames) ==
    IF Len(frames) > 1 /\ is_cauldron_code(frames[1].filename)
    THEN get_stack_frames(Tail(frames))
    ELSE frames

\* format_stack_frame without the normalisation of the location.
format_stack_frame_KeepsMarker(stack_frame, proj) ==
    LET filename == IF startswith(stack_frame.filename, proj.source_directory)
                    THEN SliceFrom(stack_frame.filename, Len(proj.source_directory) + 1)
                    ELSE stack_frame.filename
    IN [filename |-> filename,
        location |-> stack_frame.name,
        line_number |-> stack_frame.lineno,
        line |-> stack_frame.line]

format_stack_frame(stack_frame, proj) ==
    LET filename == IF startswith(stack_frame.filename, proj.source_directory)
                    THEN SliceFrom(stack_frame.filename, Len(proj.source_directory) + 1)
                    ELSE stack_frame.filename
        location == IF stack_frame.name = "<module>" THEN None ELSE stack_frame.name
    IN [filename |-> filename,
        location |-> location,
        line_number |-> stack_frame.lineno,
        line |-> stack_frame.line]

render_error(proj, error) ==
    LET kept == get_stack_frames(error.tb)
        render_data == [type |-> error.kind,
                        message |-> FormatError(error),
                        stack |-> [i \in 1..Len(kept) |-> format_stack_frame(kept[i], proj)]]
    IN [success |-> FALSE,
        error |-> error,
        message |-> render_template("user-code-error.txt", render_data),
        html_message |-> render_template("user-code-error.html", render_data)]

(***************************************************************************)
(* Steps, projects and what the user's code does when it is executed.      *)
(***************************************************************************)
\* The bindings of a fresh types.ModuleType plus the two set by run.
ModuleDict == {"__name__", "__doc__", "__package__", "__loader__", "__spec__", "__file__"}

\* What executing the user's code does: the names it binds, then either it
\* completes (raises = None) or it raises at line lineno of the step, below
\* the calls into the files of calls (outermost first).
Body(raises, lineno, calls) ==
    [raises |-> raises, lineno |-> lineno, calls |-> calls, binds |-> {"x"},
     guarded |-> FALSE]

\* Code that looks at its namespace: it raises ValueError at line 1 when the
\* name it is about to bind is bound already, and binds it otherwise.
\*     if 'x' in globals(): raise ValueError('boom')
\*     x = 1
GuardedBody ==
    [raises |-> None, lineno |-> 1, calls |-> <<>>, binds |-> {"x"}, guarded |-> TRUE]

\* The exception class the code raises when run in a namespace holding names.
RaisedIn(body, names) ==
    IF body.guarded /\ body.binds \cap names # {} THEN "ValueError" ELSE body.raises

\* file.utf8 / file.default: how the read with that decoding ends, with "ok"
\* or with the class of the exception it raises.
Step(source_path, text, file, body) ==
    [source_path |-> source_path, file |-> file, text |-> text, body |-> body,
     test_locals |-> NoValue]

Project(source_directory) == [source_directory |-> source_directory]

ReadOutcomes == {"ok", "OSError", "UnicodeDecodeError"}

Readable == [utf8 |-> "ok", default |-> "ok"]

\* The exception raised by the read with the given decoding.
ReadError(kind, decoding) == [kind |-> kind, args |-> decoding, tb |-> <<>>]

\* get_file_contents with the failure of the first read propagated.
get_file_contents_NoFallback(stp) ==
    IF stp.file.utf8 = "ok" THEN [ok |-> TRUE, text |-> stp.text]
    ELSE [ok |-> FALSE, error |-> ReadError(stp.file.utf8, "utf-8")]

\* get_file_contents(source_path), reading the file of the step: the utf-8
\* read, whose failure with an Exception is passed over, then the read with
\* the platform's default decoding.
get_file_contents(stp) ==
    IF stp.file.utf8 = "ok" THEN [ok |-> TRUE, text |-> stp.text]
    ELSE IF isinstance([kind |-> stp.file.utf8], "Exception")
    THEN IF stp.file.default = "ok" THEN [ok |-> TRUE, text |-> stp.text]
         ELSE [ok |-> FALSE, error |-> ReadError(stp.file.default, "default")]
    ELSE [ok |-> FALSE, error |-> ReadError(stp.file.utf8, "utf-8")]

Frame(filename, name, lineno, line) ==
    [filename |-> filename, name |-> name, lineno |-> lineno, line |-> line]

\* traceback.extract_tb of an exception raised by the user's code and caught
\* in run: the frame of run, of exec_test in testing mode, of the step's
\* module, and of the calls below it.
extract_tb(stp, in_testing) ==
    (IF in_testing
     THEN << Frame(RunnerFile, "run", 92, "exec_test()"),
             Frame(RunnerFile, "exec_test", 85, "exec(code, step.test_locals)") >>
     ELSE << Frame(RunnerFile, "run", 94, "exec(code, target_module.__dict__)") >>)
    \o << Frame(stp.source_path, "<module>", stp.body.lineno, "user code") >>
    \o [i \in 1..Len(stp.body.calls) |-> Frame(stp.body.calls[i], "f", i, "library code")]

\* Handle with the generic clause tried first.
Handle_GenericFirst(error, proj) ==
    IF isinstance(error, "Exception")
    THEN [caught |-> TRUE, out |-> render_error(proj, error)]
    ELSE [caught |-> FALSE, out |-> NoValue]

\* Handle with the cooperative abort treated like the user's abort.
Handle_AbortAsSuccess(error, proj) ==
    IF isinstance(error, "ThreadAbortError") \/ isinstance(error, "UserAbortError")
    THEN [caught |-> TRUE, out |-> NoValue]
    ELSE IF isinstance(error, "Exception")
    THEN [caught |-> TRUE, out |-> render_error(proj, error)]
    ELSE [caught |-> FALSE, out |-> NoValue]

\* The except clauses of run, in order: what becomes of out, or the error
\* leaves run.
Handle(error, proj) ==
    IF isinstance(error, "ThreadAbortError")
    THEN [caught |-> TRUE, out |-> [success |-> FALSE]]
    ELSE IF isinstance(error, "UserAbortError")
    THEN [caught |-> TRUE, out |-> NoValue]
    ELSE IF isinstance(error, "Exception")
    THEN [caught |-> TRUE, out |-> render_error(proj, error)]
    ELSE [caught |-> FALSE, out |-> NoValue]

\* set_executing writing the flag of every worker.
set_executing_AllThreads(t, on) ==
    IF is_cauldron[t] THEN [u \in Threads |-> on] ELSE is_executing

\* set_executing(on) called on thread t.
set_executing(t, on) ==
    IF is_cauldron[t] THEN [is_executing EXCEPT ![t] = on] ELSE is_executing

\* abort_thread raising without consuming the request.
abort_thread_KeepsFlag(t) ==
    IF is_cauldron[t] /\ abort[t]
    THEN [raised |-> TRUE, abort |-> abort]
    ELSE [raised |-> FALSE, abort |-> abort]

\* threads.abort_thread() called on thread t: the checkpoint. It raises the
\* cooperative abort when an abort was requested, which consumes the request.
abort_thread(t) ==
    IF is_cauldron[t] /\ abort[t]
    THEN [raised |-> TRUE, abort |-> [abort EXCEPT ![t] = FALSE]]
    ELSE [raised |-> FALSE, abort |-> abort]

ThreadAbort == [kind |-> "ThreadAbortError", args |-> "User Aborted Execution", tb |-> <<>>]

(***************************************************************************)
(* The state machine.                                                      *)
(***************************************************************************)
Log(t, event) == [trace EXCEPT ![t] = Append(@, event)]

\* run gives its caller a value or an exception; the thread is idle again.
End(t, result) ==
    /\ results' = [results EXCEPT ![t] = Append(@, result)]
    /\ pc' = [pc EXCEPT ![t] = "idle"]
    /\ source_code' = [source_code EXCEPT ![t] = NoValue]
    /\ exc' = [exc EXCEPT ![t] = NoError]
    /\ out' = [out EXCEPT ![t] = NoValue]

\* How the trace of an invocation begins: with "abort_req" when an abort
\* requested since the last cooperative abort is pending, with "abort_stale"
\* when the flag is set although no abort was requested since.
Pending(t) ==
    LET raises == {i \in 1..Len(trace[t]) : trace[t][i] \in {"precheck_raise", "footer_raise"}}
        fresh == \E i \in 1..Len(trace[t]) :
                    /\ trace[t][i] = "abort_req"
                    /\ \A j \in raises : j < i
    IN IF ~abort[t] THEN <<>>
       ELSE IF fresh THEN <<"abort_req">>
       ELSE <<"abort_stale">>

\* run, lines 47-62: the caller invokes run, which loads the source.
Load(t) ==
    /\ pc[t] = "idle"
    /\ quota[t] > 0
    /\ quota' = [quota EXCEPT ![t] = @ - 1]
    /\ LET r == get_file_contents(step[t])
           start == Pending(t) \o <<"invoke">>
       IN IF r.ok
          THEN /\ source_code' = [source_code EXCEPT ![t] = r.text]
               /\ pc' = [pc EXCEPT ![t] = "compile"]
               /\ trace' = [trace EXCEPT ![t] = start \o <<"load">>]
               /\ UNCHANGED <<results, exc, out>>
          ELSE /\ trace' = [trace EXCEPT ![t] = start \o <<"load_raise">>]
               /\ End(t, Raises(r.error))
    /\ UNCHANGED <<reconciler_vars, is_cauldron, testing, project, step, is_executing, abort>>

\* run, lines 64-80: compile the source with the footer appended.
Compile(t) ==
    /\ pc[t] = "compile"
    /\ LET code == source_to_code(Concat(source_code[t], footer), step[t].source_path)
       IN IF code.ok
          THEN /\ pc' = [pc EXCEPT ![t] = "set_executing"]
               /\ trace' = Log(t, "compile")
               /\ UNCHANGED <<results, source_code, exc, out>>
          ELSE /\ trace' = Log(t, "compile_raise")
               /\ End(t, render_syntax_error(project[t], source_code[t], code.error))
    /\ UNCHANGED <<reconciler_vars, is_cauldron, testing, quota, project, step, is_executing, abort>>

\* run, line 88.
SetExecuting(t) ==
    /\ pc[t] = "set_executing"
    /\ is_executing' = set_executing(t, TRUE)
    /\ pc' = [pc EXCEPT ![t] = "abort_thread"]
    /\ trace' = Log(t, "set_executing")
    /\ UNCHANGED <<reconciler_vars, is_cauldron, testing, quota, project, step, abort,
                   source_code, exc, out, results>>

\* PreCheck without the call of abort_thread.
PreCheck_Skipped(t) ==
    /\ pc[t] = "abort_thread"
    /\ pc' = [pc EXCEPT ![t] = "exec"]
    /\ trace' = Log(t, "precheck_pass")
    /\ UNCHANGED <<reconciler_vars, is_cauldron, testing, quota, project, step, is_executing, abort,
                   source_code, exc, out, results>>

\* run, line 89: the cancellation pre-check.
PreCheck(t) ==
    /\ pc[t] = "abort_thread"
    /\ LET r == abort_thread(t)
       IN /\ abort' = r.abort
          /\ IF r.raised
             THEN /\ exc' = [exc EXCEPT ![t] = ThreadAbort]
                  /\ pc' = [pc EXCEPT ![t] = "except"]
                  /\ trace' = Log(t, "precheck_raise")
             ELSE /\ exc' = exc
                  /\ pc' = [pc EXCEPT ![t] = "exec"]
                  /\ trace' = Log(t, "precheck_pass")
    /\ UNCHANGED <<reconciler_vars, is_cauldron, testing, quota, project, step, is_executing,
                   source_code, out, results>>

\* The namespace the code unit is executed in: step.test_locals in testing
\* mode, the __dict__ of the module created at line 48 otherwise.
Namespace(t) == IF testing THEN step[t].test_locals.names ELSE ModuleDict

\* Exec with step.test_locals written in every mode.
Exec_AlwaysCaptures(t) ==
    /\ pc[t] = "exec"
    /\ step' = [step EXCEPT ![t].test_locals = [names |-> ModuleDict]]
    /\ pc' = [pc EXCEPT ![t] = "body"]
    /\ trace' = Log(t, "exec")
    /\ UNCHANGED <<reconciler_vars, is_cauldron, testing, quota, project, is_executing, abort,
                   source_code, exc, out, results>>

\* Exec with step.test_locals extended instead of replaced.
Exec_KeepsTestLocals(t) ==
    /\ pc[t] = "exec"
    /\ step' = IF testing
               THEN [step EXCEPT ![t].test_locals =
                        IF @ = NoValue THEN [names |-> ModuleDict]
                        ELSE [names |-> @.names \cup ModuleDict]]
               ELSE step
    /\ pc' = [pc EXCEPT ![t] = "body"]
    /\ trace' = Log(t, "exec")
    /\ UNCHANGED <<reconciler_vars, is_cauldron, testing, quota, project, is_executing, abort,
                   source_code, exc, out, results>>

\* run, lines 91-94 (and 83-85): execution of the code unit begins, in
\* step.test_locals in testing mode and in the module's namespace otherwise.
Exec(t) ==
    /\ pc[t] = "exec"
    /\ step' = IF testing
               THEN [step EXCEPT ![t].test_locals = [names |-> ModuleDict]]
               ELSE step
    /\ pc' = [pc EXCEPT ![t] = "body"]
    /\ trace' = Log(t, "exec")
    /\ UNCHANGED <<reconciler_vars, is_cauldron, testing, quota, project, is_executing, abort,
                   source_code, exc, out, results>>

\* The user's code runs to its end or to the exception it raises.
RunBody(t) ==
    /\ pc[t] = "body"
    /\ step' = IF testing
               THEN [step EXCEPT ![t].test_locals =
                        [names |-> @.names \cup {"__builtins__"} \cup step[t].body.binds]]
               ELSE step
    /\ IF RaisedIn(step[t].body, Namespace(t)) = None
       THEN /\ pc' = [pc EXCEPT ![t] = "footer"]
            /\ trace' = Log(t, "body_done")
            /\ exc' = exc
       ELSE /\ pc' = [pc EXCEPT ![t] = "except"]
            /\ trace' = Log(t, "body_raise")
            /\ exc' = [exc EXCEPT ![t] = [kind |-> RaisedIn(step[t].body, Namespace(t)),
                                          args |-> "boom",
                                          tb |-> extract_tb(step[t], testing)]]
    /\ UNCHANGED <<reconciler_vars, is_cauldron, testing, quota, project, is_executing, abort,
                   source_code, out, results>>

\* Footer without the checkpoint of step.breathe().
Footer_NoCheckpoint(t) ==
    /\ pc[t] = "footer"
    /\ step' = IF testing
               THEN [step EXCEPT ![t].test_locals = [names |-> @.names \cup {"__cauldron__"}]]
               ELSE step
    /\ pc' = [pc EXCEPT ![t] = "clear"]
    /\ trace' = Log(t, "footer_pass")
    /\ out' = [out EXCEPT ![t] = NoValue]
    /\ UNCHANGED <<reconciler_vars, is_cauldron, testing, quota, project, is_executing, abort,
                   source_code, exc, results>>

\* The footer (lines 55-60) runs after the user's code: it imports cauldron,
\* flushes the display and reaches the checkpoint of step.breathe(); then
\* line 95.
Footer(t) ==
    /\ pc[t] = "footer"
    /\ step' = IF testing
               THEN [step EXCEPT ![t].test_locals = [names |-> @.names \cup {"__cauldron__"}]]
               ELSE step
    /\ LET r == abort_thread(t)
       IN /\ abort' = r.abort
          /\ IF r.raised
             THEN /\ exc' = [exc EXCEPT ![t] = ThreadAbort]
                  /\ pc' = [pc EXCEPT ![t] = "except"]
                  /\ trace' = Log(t, "footer_raise")
                  /\ out' = out
             ELSE /\ exc' = exc
                  /\ pc' = [pc EXCEPT ![t] = "clear"]
                  /\ trace' = Log(t, "footer_pass")
                  /\ out' = [out EXCEPT ![t] = NoValue]
    /\ UNCHANGED <<reconciler_vars, is_cauldron, testing, quota, project, is_executing,
                   source_code, results>>

\* run, lines 96-101: the except clauses.
Except(t) ==
    /\ pc[t] = "except"
    /\ LET h == Handle(exc[t], project[t])
       IN IF h.caught
          THEN /\ out' = [out EXCEPT ![t] = h.out]
               /\ exc' = [exc EXCEPT ![t] = NoError]
               /\ pc' = [pc EXCEPT ![t] = "clear"]
               /\ trace' = Log(t, "except")
               /\ UNCHANGED <<results, source_code>>
          ELSE /\ trace' = Log(t, "escape")
               /\ End(t, Raises(exc[t]))
    /\ UNCHANGED <<reconciler_vars, is_cauldron, testing, quota, project, step, is_executing, abort>>

\* run, lines 103-105.
Return(t) ==
    /\ pc[t] = "clear"
    /\ is_executing' = set_executing(t, FALSE)
    /\ trace' = Log(t, "clear")
    /\ End(t, Returns(IF out[t] = NoValue THEN [success |-> TRUE] ELSE out[t]))
    /\ UNCHANGED <<reconciler_vars, is_cauldron, testing, quota, project, step, abort>>

\* Another actor requests that worker t stop: CauldronThread.abort is set.
RequestAbort(t) ==
    /\ is_cauldron[t]
    /\ ~abort[t]
    /\ abort' = [abort EXCEPT ![t] = TRUE]
    /\ trace' = Log(t, "abort_req")
    /\ UNCHANGED <<reconciler_vars, is_cauldron, testing, quota, project, step, is_executing,
                   pc, source_code, exc, out, results>>

Next ==
    \E t \in Threads :
        \/ Load(t)
        \/ Compile(t)
        \/ SetExecuting(t)
        \/ PreCheck(t)
        \/ Exec(t)
        \/ RunBody(t)
        \/ Footer(t)
        \/ Except(t)
        \/ Return(t)
        \/ RequestAbort(t)

(***************************************************************************)
(* Reconciliation of the step statuses of a remote project with the local  *)
(* files (_reconciler.py). A dictionary is a function from its keys; a key *)
(* that is absent, or whose value is None, is not in its domain.           *)
(***************************************************************************)
EmptyDict == [k \in {} |-> FALSE]

\* d.update(e)
Update(d, e) == [k \in DOMAIN d \cup DOMAIN e |-> IF k \in DOMAIN e THEN e[k] ELSE d[k]]

\* A local file that does not exist, and one last modified at time mtime.
Missing == [exists |-> FALSE, mtime |-> 0]

FileAt(mtime) == [exists |-> TRUE, mtime |-> mtime]

\* not path or not status, for the values of step_data.get(...)
LacksPathOrStatus(step_data) ==
    \/ "remote_source_path" \notin DOMAIN step_data
    \/ step_data.remote_source_path = ""
    \/ "status" \notin DOMAIN step_data
    \/ DOMAIN step_data.status = {}

\* os.path.getmtime(path), 0 when it raises FileNotFoundError
getmtime(fs, path) == IF fs[path].exists THEN fs[path].mtime ELSE 0

\* _mark_dirty_after computing the mark from the file alone.
mark_dirty_after_FromFileOnly(step_data, timestamp, fs) ==
    IF LacksPathOrStatus(step_data) THEN step_data
    ELSE LET path == step_data.remote_source_path
             status == step_data.status
             file_modified == getmtime(fs, path)
             is_dirty == \/ ~fs[path].exists
                         \/ timestamp < file_modified
         IN Update(step_data,
                   [dirty |-> is_dirty,
                    status |-> Update(status, [dirty |-> is_dirty,
                                               is_dirty |-> is_dirty,
                                               file_modified |-> file_modified])])

\* _mark_dirty_after(step_data, timestamp) with the files as they are in fs.
\* step_data and its status are updated in place and step_data is returned.
mark_dirty_after(step_data, timestamp, fs) ==
    IF LacksPathOrStatus(step_data) THEN step_data
    ELSE LET path == step_data.remote_source_path
             status == step_data.status
             file_modified == getmtime(fs, path)
             is_dirty == \/ (IF "dirty" \in DOMAIN status THEN status.dirty ELSE FALSE)
                         \/ ~fs[path].exists
                         \/ timestamp < file_modified
         IN Update(step_data,
                   [dirty |-> is_dirty,
                    status |-> Update(status, [dirty |-> is_dirty,
                                               is_dirty |-> is_dirty,
                                               file_modified |-> file_modified])])

\* not project_data
IsEmptyProject(data) == data = NoValue \/ DOMAIN data = {}

\* project_data.get('steps') or []
StepsOf(data) == IF "steps" \in DOMAIN data THEN data.steps ELSE <<>>

\* localize_dirty_steps, lines 40-43: the call, and the return of an empty
\* project_data.
Localize ==
    /\ rpc = "call"
    /\ IF IsEmptyProject(project_data)
       THEN /\ returned' = project_data
            /\ rpc' = "done"
       ELSE /\ returned' = returned
            /\ rpc' = "steps"
    /\ UNCHANGED <<project_data, given, files, sync_timestamp, marked>>
    /\ UNCHANGED <<is_cauldron, testing, quota, project, step, is_executing, abort,
                   pc, source_code, exc, out, trace, results>>

\* lines 44-47: the next step of project_data is marked; the dictionary in
\* the list of project_data is the one that is updated.
MarkDirtyAfter ==
    /\ rpc = "steps"
    /\ Len(marked) < Len(StepsOf(project_data))
    /\ LET i == Len(marked) + 1
           s == mark_dirty_after(StepsOf(project_data)[i], sync_timestamp, files)
       IN /\ marked' = Append(marked, s)
          /\ project_data' = [project_data EXCEPT !.steps[i] = s]
    /\ UNCHANGED <<given, files, sync_timestamp, returned, rpc>>
    /\ UNCHANGED <<is_cauldron, testing, quota, project, step, is_executing, abort,
                   pc, source_code, exc, out, trace, results>>

\* lines 44 and 48: the new list is stored and project_data is returned.
ReturnProject ==
    /\ rpc = "steps"
    /\ Len(marked) = Len(StepsOf(project_data))
    /\ project_data' = Update(project_data, [steps |-> marked])
    /\ returned' = project_data'
    /\ rpc' = "done"
    /\ UNCHANGED <<given, files, sync_timestamp, marked>>
    /\ UNCHANGED <<is_cauldron, testing, quota, project, step, is_executing, abort,
                   pc, source_code, exc, out, trace, results>>

\* No call of localize_dirty_steps is made.
ReconcilerIdle ==
    /\ project_data = NoValue
    /\ given = NoValue
    /\ files = [p \in {"a"} |-> Missing]
    /\ sync_timestamp = 0
    /\ marked = <<>>
    /\ returned = NoValue
    /\ rpc = "off"

(***************************************************************************)
(* The invocations checked: which threads run which steps.                 *)
(***************************************************************************)
SeqsUpTo(S, n) == UNION {[1..k -> S] : k \in 0..n}

SourceTexts == {Text(l, nl) : l \in SeqsUpTo(SourceShapes, MaxLines), nl \in BOOLEAN}

CallFiles ==
    {EngineFile, TemplateFile, SiblingFile, LibraryFile, HelperFile, ProjectSiblingFile, <<>>}

OkText == Text(<<"stmt", "stmt">>, TRUE)

Completes == Body(None, 1, <<>>)

\* Steps that differ in what their code does at module level.
CoreSteps ==
    {Step(StepFile, OkText, Readable, b) :
        b \in {Completes, Body("ValueError", 2, <<>>), Body("UserAbortError", 1, <<>>),
               Body("SystemExit", 1, <<>>), GuardedBody}}
    \cup {Step(StepFile, Text(<<"stmt", "bad">>, TRUE), Readable, Completes)}

\* Steps that differ in their source text.
SourceSteps == {Step(StepFile, txt, Readable, Completes) : txt \in SourceTexts}

\* Steps that differ in where their code raises.
RaisingSteps ==
    {Step(path, OkText, Readable, Body("ValueError", ln, calls)) :
        path \in {StepFile, BundledStepFile}, ln \in 1..2,
        calls \in SeqsUpTo(CallFiles, MaxCalls)}

\* Steps that differ in how their file can be read.
FileSteps ==
    {Step(StepFile, OkText, file, Completes) :
        file \in [utf8 : ReadOutcomes, default : ReadOutcomes]}

Config(isc, q, proj, stp) ==
    [is_cauldron |-> isc, quota |-> q, project |-> proj, step |-> stp]

\* A thread that is given no step to run.
Unused == Config(FALSE, 0, Project(ProjectDirectory),
                 Step(StepFile, OkText, Readable, Completes))

Alone(tst, cfg) == [testing |-> tst, cfg |-> [t \in Threads |-> IF t = "t1" THEN cfg ELSE Unused]]

Scenarios ==
    {Alone(tst, Config(isc, MaxRuns, Project(ProjectDirectory), stp)) :
        tst \in BOOLEAN, isc \in BOOLEAN, stp \in CoreSteps}
    \cup {Alone(FALSE, Config(TRUE, 1, Project(ProjectDirectory), stp)) : stp \in SourceSteps}
    \cup {Alone(tst, Config(TRUE, 1, Project(dir), stp)) :
            tst \in BOOLEAN, dir \in {ProjectDirectory, OtherDirectory}, stp \in RaisingSteps}
    \cup {Alone(FALSE, Config(TRUE, 1, Project(ProjectDirectory), stp)) : stp \in FileSteps}
    \cup {[testing |-> FALSE,
           cfg |-> [t \in Threads |-> Config(TRUE, 1, Project(ProjectDirectory),
                                             IF t = "t1" THEN s1 ELSE s2)]] :
            s1 \in CoreSteps, s2 \in CoreSteps}

Init ==
    \E sc \in Scenarios :
        /\ testing = sc.testing
        /\ is_cauldron = [t \in Threads |-> sc.cfg[t].is_cauldron]
        /\ quota = [t \in Threads |-> sc.cfg[t].quota]
        /\ project = [t \in Threads |-> sc.cfg[t].project]
        /\ step = [t \in Threads |-> sc.cfg[t].step]
        /\ is_executing = [t \in Threads |-> FALSE]
        /\ abort = [t \in Threads |-> FALSE]
        /\ pc = [t \in Threads |-> "idle"]
        /\ source_code = [t \in Threads |-> NoValue]
        /\ exc = [t \in Threads |-> NoError]
        /\ out = [t \in Threads |-> NoValue]
        /\ trace = [t \in Threads |-> <<>>]
        /\ results = [t \in Threads |-> <<>>]
        /\ ReconcilerIdle

Spec == Init /\ [][Next]_vars

(***************************************************************************)
(* The calls of localize_dirty_steps checked.                              *)
(***************************************************************************)
Paths == {"a"}

\* The values of a key that may be absent: d is extended with key |-> v for
\* each v of values, or left without the key.
WithKey(dicts, key, values) ==
    dicts \cup {Update(d, [k \in {key} |-> v]) : d \in dicts, v \in values}

Statuses ==
    {EmptyDict} \cup WithKey({[name |-> "S"]}, "dirty", BOOLEAN)

StepDatas ==
    WithKey(WithKey(WithKey({[name |-> "S"]}, "dirty", {TRUE}),
                    "status", Statuses),
            "remote_source_path", Paths \cup {""})

ProjectDatas ==
    {NoValue, EmptyDict, [id |-> "P"]}
    \cup {[id |-> "P", steps |-> ss] : ss \in SeqsUpTo(StepDatas, MaxSteps)}

Times == 0..MaxTime

\* No thread is given a step to run.
RunnerIdle ==
    /\ testing = FALSE
    /\ is_cauldron = [t \in Threads |-> Unused.is_cauldron]
    /\ quota = [t \in Threads |-> Unused.quota]
    /\ project = [t \in Threads |-> Unused.project]
    /\ step = [t \in Threads |-> Unused.step]
    /\ is_executing = [t \in Threads |-> FALSE]
    /\ abort = [t \in Threads |-> FALSE]
    /\ pc = [t \in Threads |-> "idle"]
    /\ source_code = [t \in Threads |-> NoValue]
    /\ exc = [t \in Threads |-> NoError]
    /\ out = [t \in Threads |-> NoValue]
    /\ trace = [t \in Threads |-> <<>>]
    /\ results = [t \in Threads |-> <<>>]

InitReconciler ==
    /\ RunnerIdle
    /\ project_data \in ProjectDatas
    /\ given = project_data
    /\ files \in [Paths -> {Missing} \cup {FileAt(m) : m \in Times}]
    /\ sync_timestamp \in Times
    /\ marked = <<>>
    /\ returned = NoValue
    /\ rpc = "call"

NextReconciler ==
    \/ Localize
    \/ MarkDirtyAfter
    \/ ReturnProject

SpecReconciler == InitReconciler /\ [][NextReconciler]_vars

(***************************************************************************)
(* Vocabulary of the properties.                                           *)
(***************************************************************************)
\* The last invocation on t has ended; trace[t] holds its events.
Finished(t) == pc[t] = "idle" /\ results[t] # <<>>

LastResult(t) == results[t][Len(results[t])]

Has(t, event) == \E i \in 1..Len(trace[t]) : trace[t][i] = event

Aborted == Returns([success |-> FALSE])

Completed == Returns([success |-> TRUE])

\* The abort flag was set when run was invoked.
AbortSetAtInvoke(t) == trace[t] # <<>> /\ trace[t][1] \in {"abort_req", "abort_stale"}

\* A result that is a failure with its report: error, message, html_message.
IsFailure(r) ==
    /\ r.how = "returned"
    /\ DOMAIN r.value = {"success", "error", "message", "html_message"}
    /\ r.value.success = FALSE

\* file lies in directory dir or below it.
LiesUnder(file, dir) ==
    /\ startswith(file, dir)
    /\ Len(file) > Len(dir)
    /\ file[Len(dir) + 1] = "/"

\* Engine code: under the install root and outside the bundled resources.
Internal(file) == LiesUnder(file, cauldron_path) /\ ~LiesUnder(file, resources_path)

(***************************************************************************)
(* C1. For every way an invocation of run on a worker thread can end after *)
(* is_executing was set to true (normal completion, cooperative abort,     *)
(* user abort, any other failure of the executed code), the worker's       *)
(* is_executing flag is false once control has left run.                   *)
(* Fails: an exception that is no Exception (SystemExit) leaves run past   *)
(* set_executing(False).                                                   *)
(***************************************************************************)
C1_ExecutingClearedOnEveryExit ==
    \A t \in Threads :
        (Finished(t) /\ is_cauldron[t] /\ Has(t, "set_executing")) => ~is_executing[t]

(***************************************************************************)
(* C2. Once the source text has been loaded, run never lets a failure of   *)
(* the user's code escape to its caller: the invocation returns an Outcome *)
(* Record. Fails: SystemExit raised by the user's code leaves run, and so   *)
(* does the AttributeError raised while the compile failure of a source    *)
(* holding a NUL character is rendered.                                    *)
(***************************************************************************)
C2_UserFailureNeverEscapes ==
    \A t \in Threads :
        (Finished(t) /\ Has(t, "load")) => LastResult(t).how = "returned"

(***************************************************************************)
(* C3, as claimed. If the worker's abort flag is already true when run is  *)
(* invoked, then for any step source, valid or syntactically invalid, the  *)
(* Outcome Record is {success: false} with no message fields.              *)
(***************************************************************************)
C3_AbortedForAnySource ==
    \A t \in Threads :
        (Finished(t) /\ AbortSetAtInvoke(t) /\ Has(t, "load")) => LastResult(t) = Aborted

(***************************************************************************)
(* C3, amended. If the worker's abort flag is already true when run is     *)
(* invoked, then for any step source that compiles with the footer the     *)
(* Outcome Record is {success: false} with no message fields; for a source *)
(* that does not compile it is not, and the pre-check is not reached.      *)
(***************************************************************************)
C3_AbortedWhenSourceCompiles ==
    \A t \in Threads :
        (Finished(t) /\ AbortSetAtInvoke(t) /\ Has(t, "load")) =>
            IF Has(t, "compile")
            THEN LastResult(t) = Aborted /\ Has(t, "precheck_raise")
            ELSE LastResult(t) # Aborted /\ ~Has(t, "precheck_raise")

C3_Witness ==
    \E t \in Threads :
        /\ Finished(t) /\ AbortSetAtInvoke(t) /\ Has(t, "compile")
        /\ LastResult(t) = Aborted

(***************************************************************************)
(* C4, as claimed. If an abort is requested on a worker at any point       *)
(* before its executing step reaches its checkpoint, the Outcome Record    *)
(* has success=false and no message fields, also when the user's code      *)
(* raises an ordinary exception before the footer checkpoint is reached.   *)
(***************************************************************************)
\* An abort was requested before the step reached a checkpoint or raised.
RequestedBeforeCheckpoint(t) ==
    \E i \in 1..Len(trace[t]) :
        /\ trace[t][i] \in {"abort_req", "abort_stale"}
        /\ \A j \in 1..(i - 1) :
              trace[t][j] \notin {"precheck_raise", "footer_raise", "footer_pass",
                                  "body_raise"}

C4_AbortedWheneverRequested ==
    \A t \in Threads :
        (/\ Finished(t) /\ Has(t, "set_executing") /\ RequestedBeforeCheckpoint(t)
         /\ LastResult(t).how = "returned") =>
            LastResult(t) = Aborted

(***************************************************************************)
(* C4, amended. If an abort is requested on a worker before its executing  *)
(* step reaches a checkpoint and the step reaches that checkpoint (the     *)
(* pre-check, or the footer checkpoint after the user's code completed     *)
(* without raising), the Outcome Record has success=false and no message   *)
(* fields, under every interleaving of the request with the user's code.   *)
(***************************************************************************)
\* A checkpoint was executed while a request made before it was pending.
CheckpointAfterRequest(t) ==
    \E i \in 1..Len(trace[t]) : \E k \in (i + 1)..Len(trace[t]) :
        /\ trace[t][i] \in {"abort_req", "abort_stale"}
        /\ trace[t][k] \in {"precheck_pass", "precheck_raise", "footer_pass", "footer_raise"}

C4_AbortedAtCheckpoint ==
    \A t \in Threads :
        (Finished(t) /\ CheckpointAfterRequest(t)) => LastResult(t) = Aborted

\* The request arrived while the user's code was running.
C4_Witness ==
    \E t \in Threads :
        /\ Finished(t) /\ LastResult(t) = Aborted
        /\ \E i \in 1..Len(trace[t]) :
              /\ trace[t][i] = "abort_req"
              /\ i > 1 /\ trace[t][i - 1] = "exec"
        /\ Has(t, "footer_raise")

(***************************************************************************)
(* C5. Outcome classification of the Executing state: no exception or a    *)
(* UserAbortError yields exactly {success: true}; a ThreadAbortError       *)
(* yields exactly {success: false}; any other exception yields             *)
(* success=false with error, message and html_message, type being the      *)
(* exception's class name; every execution ends in exactly one of them.    *)
(* Fails: SystemExit ends in none of the three, it leaves run (see C2).    *)
(***************************************************************************)
\* The class of the exception raised in the last invocation, None if none.
RaisedKind(t) ==
    IF Has(t, "body_raise") THEN step[t].body.raises
    ELSE IF Has(t, "precheck_raise") \/ Has(t, "footer_raise") THEN "ThreadAbortError"
    ELSE None

C5_OutcomeClassification ==
    \A t \in Threads :
        (Finished(t) /\ Has(t, "set_executing")) =>
            /\ RaisedKind(t) \in {None, "UserAbortError"} => LastResult(t) = Completed
            /\ RaisedKind(t) = "ThreadAbortError" => LastResult(t) = Aborted
            /\ RaisedKind(t) \notin {None, "UserAbortError", "ThreadAbortError"} =>
                  /\ IsFailure(LastResult(t))
                  /\ LastResult(t).value.error.kind = RaisedKind(t)
                  /\ LastResult(t).value.message.data.type = RaisedKind(t)
                  /\ LastResult(t).value.html_message.data.type = RaisedKind(t)

(***************************************************************************)
(* C6. When the combined source (user source plus footer) fails to         *)
(* compile, run returns the Compile Failure immediately: no user code is   *)
(* executed, the worker's is_executing flag is not set, and the            *)
(* cancellation pre-check is not performed (a pending abort flag is left   *)
(* as it was).                                                             *)
(* Fails: for a source holding a NUL character the SyntaxError has no      *)
(* text, render_syntax_error raises AttributeError and run does not return *)
(* (see C2); nothing is executed and no flag is touched in that case too.  *)
(***************************************************************************)
CompileFails(t) ==
    ~source_to_code(Concat(source_code[t], footer), step[t].source_path).ok

C6_CompileFailureReturnsImmediately ==
    [][\A t \in Threads :
          (pc[t] = "compile" /\ pc'[t] # "compile" /\ CompileFails(t)) =>
              /\ pc'[t] = "idle"
              /\ IsFailure(LastResult(t)')
              /\ isinstance(LastResult(t)'.value.error, "SyntaxError")
              /\ is_executing' = is_executing
              /\ abort' = abort
              /\ step' = step
              /\ \A i \in 1..Len(trace'[t]) :
                    trace'[t][i] \notin {"set_executing", "precheck_pass", "precheck_raise",
                                         "exec", "body_done", "body_raise"}]_vars

(***************************************************************************)
(* C7. For every syntactically invalid source, run yields success=false    *)
(* with a Failure Record whose type is the syntax-error kind and whose     *)
(* single stack frame's line_number is the first offending line of the     *)
(* original source, a line of the user's source and never of the footer.   *)
(* Fails: a source ending in a block header without a body, or in a line   *)
(* continuation, is reported at a line of the footer, or even compiles.    *)
(***************************************************************************)
C7_SyntaxErrorAtOriginalLine ==
    \A t \in Threads :
        LET alone == source_to_code(step[t].text, step[t].source_path)
        IN (Finished(t) /\ Has(t, "load") /\ ~alone.ok) =>
              /\ IsFailure(LastResult(t))
              /\ isinstance(LastResult(t).value.error, "SyntaxError")
              /\ LET data == LastResult(t).value.message.data
                 IN /\ data.type \in {"SyntaxError", "IndentationError"}
                    /\ Len(data.stack) = 1
                    /\ data.stack[1].line_number = alone.error.lineno
                    /\ data.stack[1].line_number <= Len(step[t].text.lines)

(***************************************************************************)
(* C8, as claimed. For every runtime failure raised at any call depth, the *)
(* sanitized stack returned by get_stack_frames contains no frame whose    *)
(* filename lies under the engine install root and outside the bundled     *)
(* resource root, except when it is the single surviving frame; also when  *)
(* an engine-internal frame occurs deeper than a user frame.               *)
(***************************************************************************)
\* The thread handles an exception raised by the user's code.
HandlingFailure(t) == pc[t] = "except" /\ exc[t].tb # <<>>

C8_NoInternalFrameKept ==
    \A t \in Threads :
        HandlingFailure(t) =>
            LET kept == get_stack_frames(exc[t].tb)
            IN \A i \in 1..Len(kept) : Internal(kept[i].filename) => Len(kept) = 1

(***************************************************************************)
(* C8, amended. For every runtime failure raised at any call depth, the    *)
(* sanitized stack returned by get_stack_frames is not empty and does not  *)
(* begin with a frame the engine classifies as internal, except when that  *)
(* frame is the single surviving frame; when no frame classified internal  *)
(* occurs deeper than one that is not, it contains no such frame at all,   *)
(* with the same exception. A frame classified internal that is deeper     *)
(* than a user frame is kept.                                              *)
(***************************************************************************)
InternalFramesLead(tb) ==
    \A i \in 1..Len(tb) : \A j \in (i + 1)..Len(tb) :
        is_cauldron_code(tb[j].filename) => is_cauldron_code(tb[i].filename)

C8_LeadingInternalFramesRemoved ==
    \A t \in Threads :
        HandlingFailure(t) =>
            LET kept == get_stack_frames(exc[t].tb)
            IN /\ kept # <<>>
               /\ is_cauldron_code(kept[1].filename) => Len(kept) = 1
               /\ InternalFramesLead(exc[t].tb) =>
                     \A i \in 1..Len(kept) :
                         is_cauldron_code(kept[i].filename) => Len(kept) = 1
               /\ ~InternalFramesLead(exc[t].tb) =>
                     \E i \in 1..Len(kept) : is_cauldron_code(kept[i].filename)

\* Frames of the engine were removed in front of the user's frames.
C8_Witness ==
    \E t \in Threads :
        /\ HandlingFailure(t)
        /\ Len(exc[t].tb) >= 4
        /\ LET kept == get_stack_frames(exc[t].tb)
           IN /\ Len(kept) >= 2 /\ Len(kept) < Len(exc[t].tb)
              /\ \A i \in 1..Len(kept) : ~is_cauldron_code(kept[i].filename)

(***************************************************************************)
(* C9. For a step whose source raises an exception at module level, in     *)
(* normal mode and in testing mode, the reported stack has exactly one     *)
(* frame; its filename refers to the step's own source file (the path, or  *)
(* the path relative to the project's source root), its location is absent *)
(* (None), and type and message are the exception's class name and text.   *)
(***************************************************************************)
IsSuffix(s, whole) ==
    /\ Len(s) <= Len(whole)
    /\ s = SubSeq(whole, Len(whole) - Len(s) + 1, Len(whole))

RaisedAtModuleLevel(t) ==
    /\ Finished(t) /\ Has(t, "body_raise")
    /\ step[t].body.calls = <<>>
    /\ IsFailure(LastResult(t))

ModuleLevelReport(t, data) ==
    /\ Len(data.stack) = 1
    /\ data.stack[1].filename # <<>>
    /\ IsSuffix(data.stack[1].filename, step[t].source_path)
    /\ data.stack[1].location = None
    /\ data.stack[1].line_number = step[t].body.lineno
    /\ data.type = step[t].body.raises
    /\ data.message = "boom"

C9_ModuleLevelFailureHasOneFrame ==
    \A t \in Threads :
        RaisedAtModuleLevel(t) =>
            /\ ModuleLevelReport(t, LastResult(t).value.message.data)
            /\ ModuleLevelReport(t, LastResult(t).value.html_message.data)

\* In testing mode two frames of the engine precede the step's frame.
C9_Witness ==
    \E t \in Threads :
        /\ RaisedAtModuleLevel(t)
        /\ testing
        /\ Len(LastResult(t).value.error.tb) = 3
        /\ Len(LastResult(t).value.message.data.stack) = 1

(***************************************************************************)
(* C10. Abort requests are single-shot: after an invocation on a worker    *)
(* has ended Aborted because of an abort request, a following invocation   *)
(* on the same worker with no new abort request in between does not end    *)
(* Aborted.                                                                *)
(***************************************************************************)
PreviousAborted(t) ==
    /\ Len(results[t]) >= 2
    /\ results[t][Len(results[t]) - 1] = Aborted

C10_AbortIsSingleShot ==
    \A t \in Threads :
        (Finished(t) /\ PreviousAborted(t) /\ ~Has(t, "abort_req")) =>
            /\ LastResult(t) # Aborted
            /\ ~Has(t, "precheck_raise") /\ ~Has(t, "footer_raise")

\* The invocation after an aborted one ran the user's code to completion.
C10_Witness ==
    \E t \in Threads :
        /\ Finished(t) /\ PreviousAborted(t) /\ ~Has(t, "abort_req")
        /\ Has(t, "footer_pass")
        /\ LastResult(t) = Completed

(***************************************************************************)
(* C11. Workers are independent: an abort requested on worker A never      *)
(* causes an invocation running on a different worker B to end Aborted,    *)
(* and an invocation on worker A never changes worker B's is_executing     *)
(* flag, under any interleaving of two concurrent invocations on           *)
(* different steps.                                                        *)
(***************************************************************************)
\* Worker t takes a step of run in this transition.
Steps(t) == pc'[t] # pc[t] \/ quota'[t] # quota[t]

C11_WorkersAreIndependent ==
    [][\A a \in Threads : \A b \in Threads \ {a} :
          /\ Steps(a) => /\ is_executing'[b] = is_executing[b]
                         /\ abort'[b] = abort[b]
                         /\ results'[b] = results[b]
          /\ (trace'[a] = Append(trace[a], "abort_req")) =>
                 /\ abort'[b] = abort[b]
                 /\ trace'[b] = trace[b]
          /\ (Finished(b)' /\ LastResult(b)' = Aborted) =>
                 (\E i \in 1..Len(trace'[b]) : trace'[b][i] \in {"abort_req", "abort_stale"})]_vars

\* Worker t1 was aborted and has left run while worker t2, never asked to
\* stop, is still executing its step.
C11_Witness ==
    /\ Finished("t1") /\ LastResult("t1") = Aborted /\ ~is_executing["t1"]
    /\ pc["t2"] = "body" /\ is_executing["t2"]
    /\ ~Has("t2", "abort_req") /\ ~abort["t2"]

(***************************************************************************)
(* C12. Invoking run twice on the same unmodified step, with no abort      *)
(* requested and code without side effects, yields two Outcome Records     *)
(* with identical success, type and message and identical stack frame line *)
(* numbers; the second invocation executes in a fresh namespace that       *)
(* carries no bindings left by the first (in testing mode step.test_locals *)
(* is replaced, not extended). An invocation that leaves run with an       *)
(* exception does so both times, with the same exception.                  *)
(***************************************************************************)
\* No abort was requested on t up to the end of its last invocation.
NoAbortRequested(t) ==
    /\ \A i \in 1..Len(results[t]) : results[t][i] # Aborted
    /\ ~Has(t, "abort_req") /\ ~Has(t, "abort_stale")

LineNumbers(stack) == [i \in 1..Len(stack) |-> stack[i].line_number]

\* What the claim compares of the report in a Failure Record.
Report(data) ==
    [type |-> data.type, message |-> data.message, lines |-> LineNumbers(data.stack)]

SameOutcome(r1, r2) ==
    /\ r1.how = r2.how
    /\ r1.how = "raised" => r1.value = r2.value
    /\ r1.how = "returned" =>
          /\ r1.value.success = r2.value.success
          /\ DOMAIN r1.value = DOMAIN r2.value
          /\ IsFailure(r1) =>
                /\ Report(r1.value.message.data) = Report(r2.value.message.data)
                /\ Report(r1.value.html_message.data) = Report(r2.value.html_message.data)

C12_RepeatedRunSameOutcome ==
    \A t \in Threads :
        (Finished(t) /\ NoAbortRequested(t)) =>
            /\ \A i \in 1..Len(results[t]) : \A j \in 1..Len(results[t]) :
                  SameOutcome(results[t][i], results[t][j])
            /\ (testing /\ Has(t, "footer_pass")) =>
                  step[t].test_locals.names =
                      ModuleDict \cup {"__builtins__", "__cauldron__"} \cup step[t].body.binds

\* In testing mode the code that would fail on a binding left behind has
\* completed twice.
C12_Witness ==
    \E t \in Threads :
        /\ Finished(t) /\ NoAbortRequested(t) /\ testing
        /\ step[t].body.guarded
        /\ Len(results[t]) >= 2
        /\ \A i \in 1..Len(results[t]) : results[t][i] = Completed

(***************************************************************************)
(* C13. get_file_contents returns the source text whenever either the      *)
(* primary UTF-8 read or the fallback platform-default read succeeds; any  *)
(* failure of the primary read (decoding or otherwise) is swallowed and    *)
(* triggers the fallback; it fails only when both reads fail, and then the *)
(* error of the fallback read propagates out of run unrendered, with no    *)
(* Outcome Record produced and the worker's is_executing flag untouched.   *)
(***************************************************************************)
\* Worker t enters run and loads its source in this transition.
Loads(t) == pc[t] = "idle" /\ quota'[t] # quota[t]

C13_LoadFallsBackThenPropagates ==
    [][\A t \in Threads :
          Loads(t) =>
              /\ is_executing' = is_executing
              /\ step' = step
              /\ IF step[t].file.utf8 = "ok" \/ step[t].file.default = "ok"
                 THEN /\ source_code'[t] = step[t].text
                      /\ pc'[t] = "compile"
                      /\ results' = results
                 ELSE /\ pc'[t] = "idle"
                      /\ results'[t] =
                            Append(results[t],
                                   Raises(ReadError(step[t].file.default, "default")))]_vars

\* Both reads failed, each in its own way, and the second error left run.
C13_Witness ==
    \E t \in Threads :
        /\ Finished(t) /\ Has(t, "load_raise")
        /\ step[t].file.utf8 = "UnicodeDecodeError"
        /\ step[t].file.default = "OSError"
        /\ LastResult(t) = Raises(ReadError("OSError", "default"))
        /\ ~is_executing[t]

(***************************************************************************)
(* C14. Within one invocation on one worker the steps occur strictly in    *)
(* the order: set is_executing true, cancellation pre-check, namespace     *)
(* execution, clear is_executing. No instruction of the user's code runs   *)
(* before the pre-check, none runs in an invocation whose pre-check found  *)
(* an abort requested, and is_executing is true throughout the execution   *)
(* of the user's code.                                                     *)
(***************************************************************************)
PreCheckEvents == {"precheck_pass", "precheck_raise"}

UserCodeEvents == {"exec", "body_done", "body_raise", "footer_pass", "footer_raise"}

\* Positions in the trace of the current invocation of the events in E.
At(t, E) == {i \in 1..Len(trace[t]) : trace[t][i] \in E}

\* Every event of A is preceded by an event of B.
Follows(t, A, B) == \A i \in At(t, A) : \E j \in At(t, B) : j < i

\* The user's code of worker t is being executed.
InUserCode(t) == pc[t] \in {"body", "footer"}

C14_StepsInOrder ==
    \A t \in Threads :
        /\ Cardinality(At(t, {"set_executing"})) <= 1
        /\ Cardinality(At(t, PreCheckEvents)) <= 1
        /\ Cardinality(At(t, {"exec"})) <= 1
        /\ Cardinality(At(t, {"clear"})) <= 1
        /\ Follows(t, PreCheckEvents, {"set_executing"})
        /\ Follows(t, UserCodeEvents, {"precheck_pass"})
        /\ Follows(t, {"clear"}, {"set_executing"})
        /\ \A i \in At(t, {"clear"}) : \A j \in At(t, UserCodeEvents \cup PreCheckEvents) : j < i
        /\ Has(t, "precheck_raise") => At(t, UserCodeEvents) = {}
        /\ (\E i \in At(t, {"abort_req", "abort_stale"}) : \E k \in At(t, PreCheckEvents) : i < k)
              => At(t, UserCodeEvents) = {}
        /\ InUserCode(t) => /\ Has(t, "set_executing") /\ ~Has(t, "clear")
                            /\ is_cauldron[t] => is_executing[t]

\* The pre-check found an abort requested: the invocation ended with the
\* flag cleared and without the user's code.
C14_Witness ==
    \E t \in Threads :
        /\ Finished(t) /\ At(t, {"precheck_raise"}) # {}
        /\ At(t, {"clear"}) = {Len(trace[t])}
        /\ At(t, UserCodeEvents) = {}
        /\ ~is_executing[t]

(***************************************************************************)
(* C15. For every non-empty captured stack, get_stack_frames returns a     *)
(* non-empty suffix of it: it removes only leading frames, removes a frame *)
(* only if that frame is internal, stops at the first non-internal frame,  *)
(* and never removes the last remaining frame; so a stack consisting only  *)
(* of internal frames yields exactly its last frame, and the relative      *)
(* order of kept frames is unchanged. Internal is what is_cauldron_code    *)
(* classifies as internal (the classification itself is C16).              *)
(***************************************************************************)
AllInternal(tb) == \A i \in 1..Len(tb) : is_cauldron_code(tb[i].filename)

C15_KeptFramesAreSuffix ==
    \A t \in Threads :
        HandlingFailure(t) =>
            LET tb == exc[t].tb
                kept == get_stack_frames(tb)
                removed == Len(tb) - Len(kept)
            IN /\ kept # <<>>
               /\ removed >= 0
               /\ kept = SubSeq(tb, removed + 1, Len(tb))
               /\ \A i \in 1..removed : is_cauldron_code(tb[i].filename)
               /\ Len(kept) = 1 \/ ~is_cauldron_code(kept[1].filename)
               /\ AllInternal(tb) => kept = <<tb[Len(tb)]>>

\* A stack of internal frames only: a step bundled with the engine failed
\* inside the engine.
C15_Witness ==
    \E t \in Threads :
        /\ HandlingFailure(t)
        /\ Len(exc[t].tb) >= 3
        /\ AllInternal(exc[t].tb)
        /\ get_stack_frames(exc[t].tb) = <<exc[t].tb[Len(exc[t].tb)]>>

(***************************************************************************)
(* C16. A frame is classified internal if and only if its filename lies    *)
(* under the engine install root and does not lie under the bundled        *)
(* resource root; every other frame (one with an empty filename, one whose *)
(* path merely shares a textual prefix with the install root without being *)
(* inside that directory) is classified not internal.                      *)
(* Fails: is_cauldron_code compares texts with startswith, so a file in a  *)
(* directory beside the install root whose name begins with the root's     *)
(* name is classified internal.                                            *)
(***************************************************************************)
C16_InternalIffUnderInstallRoot ==
    \A t \in Threads :
        HandlingFailure(t) =>
            \A i \in 1..Len(exc[t].tb) :
                is_cauldron_code(exc[t].tb[i].filename) <=> Internal(exc[t].tb[i].filename)

(***************************************************************************)
(* C17. format_stack_frame rewrites a retained frame's filename to the     *)
(* path relative to the project's source root exactly when the file falls  *)
(* under that root (removing the root prefix and the one following         *)
(* separator, and nothing else), and leaves the filename unchanged         *)
(* (absolute) in every other case, including a file in a sibling directory *)
(* whose name begins with the source root's text.                          *)
(* Fails: the test is startswith on the texts, so the filename of a file   *)
(* in such a sibling directory loses its first characters.                 *)
(***************************************************************************)
\* filename relative to the directory dir when it lies under it.
RelativeTo(filename, dir) ==
    IF LiesUnder(filename, dir) THEN SubSeq(filename, Len(dir) + 2, Len(filename))
    ELSE filename

C17_RelativeExactlyUnderSourceRoot ==
    \A t \in Threads :
        HandlingFailure(t) =>
            LET kept == get_stack_frames(exc[t].tb)
            IN \A i \in 1..Len(kept) :
                  format_stack_frame(kept[i], project[t]).filename =
                      RelativeTo(kept[i].filename, project[t].source_directory)

(***************************************************************************)
(* C18. The cooperative abort is observed only at checkpoints: an abort    *)
(* requested while the user's code body is running does not interrupt it,  *)
(* and if the body then completes without raising, the footer checkpoint   *)
(* converts the pending abort into the Aborted outcome {success: false}    *)
(* even though every statement of the user's code has already run; the     *)
(* footer is compiled together with the user's source and is never         *)
(* executed when the body raised.                                          *)
(***************************************************************************)
FooterEvents == {"footer_pass", "footer_raise"}

\* Positions at which an abort was requested while the body was running.
RequestedInBody(t) ==
    {i \in At(t, {"abort_req"}) : i > 1 /\ trace[t][i - 1] = "exec"}

C18_AbortObservedOnlyAtCheckpoints ==
    \A t \in Threads :
        /\ \A i \in RequestedInBody(t) :
              /\ i < Len(trace[t]) =>
                    trace[t][i + 1] =
                        (IF RaisedIn(step[t].body, ModuleDict) = None
                         THEN "body_done" ELSE "body_raise")
              /\ i + 1 < Len(trace[t]) /\ trace[t][i + 1] = "body_done" =>
                    trace[t][i + 2] = "footer_raise"
              /\ Finished(t) /\ Has(t, "body_done") =>
                    /\ LastResult(t) = Aborted
                    /\ testing => step[t].body.binds \subseteq step[t].test_locals.names
        /\ Has(t, "body_raise") => At(t, FooterEvents) = {}
        /\ Follows(t, FooterEvents, {"body_done"})
        /\ Has(t, "compile") =>
              source_to_code(Concat(step[t].text, footer), step[t].source_path).ok
        /\ Finished(t) /\ LastResult(t) = Aborted =>
              Has(t, "precheck_raise") \/ Has(t, "footer_raise")

\* In testing mode: the request arrived during the body, every name of the
\* body is bound, and the invocation ended Aborted at the footer.
C18_Witness ==
    \E t \in Threads :
        /\ Finished(t) /\ testing
        /\ RequestedInBody(t) # {}
        /\ Has(t, "body_done") /\ Has(t, "footer_raise")
        /\ step[t].body.binds \subseteq step[t].test_locals.names
        /\ LastResult(t) = Aborted

(***************************************************************************)
(* C19. Frame condition of run on the shared records: the Project is never *)
(* modified, and the only field of the Step that run ever writes is the    *)
(* test-capture field test_locals, which it writes only in testing mode    *)
(* and only after compilation succeeded and the pre-check passed; on the   *)
(* load-failure, compile-failure and pre-check-abort paths the Step is     *)
(* left entirely unchanged.                                                *)
(***************************************************************************)
\* The step with its test-capture field left out.
WithoutCapture(stp) == [f \in DOMAIN stp \ {"test_locals"} |-> stp[f]]

C19_OnlyTestLocalsWritten ==
    [][/\ project' = project
       /\ \A t \in Threads :
             /\ WithoutCapture(step'[t]) = WithoutCapture(step[t])
             /\ step'[t] # step[t] =>
                   /\ testing
                   /\ Steps(t)
                   /\ Has(t, "compile") /\ Has(t, "precheck_pass")
                   /\ ~Has(t, "load_raise") /\ ~Has(t, "compile_raise")
                   /\ ~Has(t, "precheck_raise")
                   /\ step'[t].test_locals # NoValue]_vars

\* In testing mode, the namespace has just been captured, after the
\* compilation and the pre-check.
C19_Witness ==
    \E t \in Threads :
        /\ testing /\ pc[t] = "body"
        /\ Has(t, "compile") /\ Has(t, "precheck_pass")
        /\ step[t].test_locals = [names |-> ModuleDict]

(***************************************************************************)
(* C20. localize_dirty_steps never clears a dirty mark: for every step     *)
(* that has both a remote_source_path and a status, after the call dirty   *)
(* is true exactly when the status was already dirty, or the local file is *)
(* missing, or the last sync timestamp is strictly earlier than the file's *)
(* modification time, and the three fields step.dirty, status.dirty and    *)
(* status.is_dirty are equal; a step lacking a path or a status is         *)
(* returned unchanged, and an empty project is returned as is.             *)
(***************************************************************************)
\* The status of the step was marked dirty.
WasDirty(step_data) == "dirty" \in DOMAIN step_data.status /\ step_data.status.dirty

\* The file of the step is missing or was modified after the last sync.
ChangedLocally(step_data) ==
    \/ ~files[step_data.remote_source_path].exists
    \/ sync_timestamp < files[step_data.remote_source_path].mtime

MarkedAsClaimed(before, after) ==
    IF LacksPathOrStatus(before)
    THEN after = before
    ELSE /\ after.dirty = (WasDirty(before) \/ ChangedLocally(before))
         /\ after.status.dirty = after.dirty
         /\ after.status.is_dirty = after.dirty
         /\ WasDirty(before) => after.status.dirty
         /\ after.remote_source_path = before.remote_source_path
         /\ after.name = before.name

C20_DirtyMarkKeptOrSet ==
    rpc = "done" =>
        /\ returned = project_data
        /\ IF IsEmptyProject(given)
           THEN returned = given
           ELSE /\ Len(returned.steps) = Len(StepsOf(given))
                /\ \A i \in 1..Len(returned.steps) :
                      MarkedAsClaimed(StepsOf(given)[i], returned.steps[i])
                /\ returned.id = given.id

\* A step already marked dirty, whose file exists and was not modified
\* since the last sync, is still marked dirty after the call.
C20_Witness ==
    /\ rpc = "done"
    /\ ~IsEmptyProject(given)
    /\ \E i \in 1..Len(returned.steps) :
          LET before == StepsOf(given)[i]
              after == returned.steps[i]
          IN /\ ~LacksPathOrStatus(before)
             /\ WasDirty(before)
             /\ ~ChangedLocally(before)
             /\ after.dirty /\ after.status.dirty /\ after.status.is_dirty

====
